---- MODULE Spec2Model ----
(***************************************************************************)
(* Model of LandNSM10.py: the serial command/response driver of the Luigs  *)
(* & Neumann SM-10 manipulator controller.                                 *)
(*                                                                         *)
(* Strings of hexadecimal characters are sequences of character codes:     *)
(* 0..15 are the characters '0'..'f', DASH is the character '-'.            *)
(* Byte strings are sequences of 0..255.  A float is the record            *)
(* [sign, exp, mant] of its IEEE-754 single precision fields.              *)
(* The serial port is the environment: a write takes the bytes, a read of  *)
(* n bytes returns the first n bytes of what the device delivered before   *)
(* the connection time-out (possibly fewer than n).  The port itself does  *)
(* not raise.                                                              *)
(***************************************************************************)
EXTENDS Integers, Sequences, FiniteSets, TLC

VARIABLES
    connected,  \* self.connected (self.ser is None exactly when it is FALSE)
    ncalls,     \* number of operation calls made on the driver so far
    io,         \* every event on the serial port and the settle waits, in order
    op,         \* the last operation called, with its arguments
    sent,       \* the send_command invocations of the last operation, in order
    wire,       \* the byte strings the last operation wrote to the port
    reads,      \* the reads the last operation issued: bytes asked, bytes got
    outcome     \* how the last operation ended: value returned or exception

vars == <<connected, ncalls, io, op, sent, wire, reads, outcome>>

-----------------------------------------------------------------------------
(* Bounds of the model *)

\* Number of operation calls in one behaviour.
MaxCalls == 2

\* Longest parameter list passed to send_command directly, LongParams apart.
MaxParams == 2

-----------------------------------------------------------------------------
(* Characters, bytes and floats *)

DASH == 15 + 1

Min(a, b) == IF a < b THEN a ELSE b

Take(s, n) == SubSeq(s, 1, Min(n, Len(s)))

RECURSIVE HexDigits(_)
\* The hexadecimal digits of v >= 0, most significant first, no padding.
HexDigits(v) ==
    IF v < 16 THEN <<v>> ELSE HexDigits(v \div 16) \o <<v % 16>>

\* '%02x' % v : width at least 2, zero padded, the sign counts for the width.
Fmt02x(v) ==
    IF v < 0 THEN <<DASH>> \o HexDigits(-v)
    ELSE IF v < 16 THEN <<0, v>>
    ELSE HexDigits(v)

RECURSIVE Flatten(_)
\* Concatenation of a sequence of sequences (the += of the for loop),
\* split in halves to keep the recursion shallow.
Flatten(ss) ==
    IF Len(ss) = 0 THEN <<>>
    ELSE IF Len(ss) = 1 THEN ss[1]
    ELSE LET h == Len(ss) \div 2
         IN  Flatten(SubSeq(ss, 1, h)) \o Flatten(SubSeq(ss, h + 1, Len(ss)))

\* binascii.unhexlify raises binascii.Error on an odd length or on a
\* character that is no hexadecimal digit.
unhexlify_ok(s) ==
    /\ Len(s) % 2 = 0
    /\ \A i \in 1..Len(s) : s[i] \in 0..15

unhexlify(s) == [i \in 1..(Len(s) \div 2) |-> 16 * s[2 * i - 1] + s[2 * i]]

\* binascii.hexlify: two hexadecimal digits per byte.
hexlify(b) ==
    [i \in 1..(2 * Len(b)) |->
        IF i % 2 = 1 THEN b[(i + 1) \div 2] \div 16 ELSE b[i \div 2] % 16]

RECURSIVE int16(_)
\* int(s, 16) of a string of hexadecimal digits.
int16(s) ==
    IF Len(s) = 0 THEN 0
    ELSE 16 * int16(SubSeq(s, 1, Len(s) - 1)) + s[Len(s)]

\* struct.pack('>f', x): the four bytes of the single, most significant first.
pack_be(x) ==
    << x.sign * 128 + x.exp \div 2,
       (x.exp % 2) * 128 + x.mant \div 65536,
       (x.mant \div 256) % 256,
       x.mant % 256 >>

\* A decode that reads the four bytes most significant first.
unpack_big_endian(b) ==
    [sign |-> b[1] \div 128,
     exp  |-> (b[1] % 128) * 2 + b[2] \div 128,
     mant |-> (b[2] % 128) * 65536 + b[3] * 256 + b[4]]

\* struct.unpack('f', b): native byte order, which is least significant
\* byte first on the platform the driver runs on (USERPROFILE, COM3).
unpack_native(b) ==
    [sign |-> b[4] \div 128,
     exp  |-> (b[4] % 128) * 2 + b[3] \div 128,
     mant |-> (b[3] % 128) * 65536 + b[2] * 256 + b[1]]

\* -position
Neg(x) == [x EXCEPT !.sign = 1 - x.sign]

-----------------------------------------------------------------------------
(* The driver *)

SYN == <<1, 6>>

CRC == <<0, 0>>

None == [kind |-> "None", exc |-> "", val |-> <<>>]

Raised(e) == [kind |-> "raise", exc |-> e, val |-> <<>>]

Value(k, v) == [kind |-> k, exc |-> "", val |-> v]

\* self.ser.read(n): at most n bytes of what the device delivered in time.
ser_read(n, avail) == Take(avail, n)

\* A check that lets every declared count through.
length_unchecked(n_bytes, var_bytes) == TRUE

\* The check of the declared byte count at the head of send_command.
length_ok(n_bytes, var_bytes) == n_bytes = Len(var_bytes)

\* The serial command as a string of hexadecimal characters.
char_command(cmd_id, n_bytes, var_bytes) ==
    SYN \o cmd_id \o Fmt02x(n_bytes)
        \o Flatten([i \in 1..Len(var_bytes) |-> Fmt02x(var_bytes[i])])
        \o Fmt02x(CRC[1]) \o Fmt02x(CRC[2])

\* A transaction that reads before it has waited.
port_events_read_early(tx) ==
    << [kind |-> "write", tx |-> tx],
       [kind |-> "read",  tx |-> tx],
       [kind |-> "sleep", tx |-> tx] >>

\* What send_command does on the port after the command is binarized,
\* in statement order: write, time.sleep(self.cmd_sleep), read.
port_events(tx) ==
    << [kind |-> "write", tx |-> tx],
       [kind |-> "sleep", tx |-> tx],
       [kind |-> "read",  tx |-> tx] >>

\* send_command: its result and its effects on the port.  conn is
\* self.connected, avail the bytes the device delivers before the time-out.
send_command(conn, tx, cmd_id, n_bytes, var_bytes, n_ret_bytes, avail) ==
    LET cc == char_command(cmd_id, n_bytes, var_bytes)
        quiet(r) == [ret |-> r, wire |-> <<>>, reads |-> <<>>, events |-> <<>>]
    IN  IF ~length_ok(n_bytes, var_bytes) THEN quiet(None)
        ELSE IF ~unhexlify_ok(cc) THEN quiet(Raised("binascii.Error"))
        ELSE IF ~conn THEN quiet(Raised("AttributeError"))
        ELSE LET ans == ser_read(n_ret_bytes, avail)
             IN  [ret    |-> Value("bytes", ans),
                  wire   |-> <<unhexlify(cc)>>,
                  reads  |-> <<[n |-> n_ret_bytes, got |-> ans]>>,
                  events |-> port_events(tx)]

\* float_to_dec_bytes: the big-endian packing, hexlified, read back two
\* digits at a time from the last pair to the first.
float_to_dec_bytes(number) ==
    LET hex_rep == hexlify(pack_be(number))
    IN  << int16(SubSeq(hex_rep, 7, 8)),
           int16(SubSeq(hex_rep, 5, 6)),
           int16(SubSeq(hex_rep, 3, 4)),
           int16(SubSeq(hex_rep, 1, 2)) >>

\* ans[4:8] of a byte string (0-based, end excluded), shorter when ans is.
slice_4_8(ans) == SubSeq(ans, 5, Min(8, Len(ans)))

\* The tail of position_inquiry: struct.unpack('f', ans[4:8])[0].
decode_position(r) ==
    IF r.kind = "raise" THEN r
    ELSE IF r.kind = "None" THEN Raised("TypeError")
    ELSE IF Len(slice_4_8(r.val)) # 4 THEN Raised("struct.error")
    ELSE Value("float", unpack_native(slice_4_8(r.val)))

\* The tail of axis_status: ans[4].
decode_status(r) ==
    IF r.kind = "raise" THEN r
    ELSE IF r.kind = "None" THEN Raised("TypeError")
    ELSE IF Len(r.val) < 5 THEN Raised("IndexError")
    ELSE Value("int", r.val[5])

\* A table with the fast and slow absolute moves exchanged.
approach_cmd_id_swapped(absolute, slow) ==
    IF absolute /\ ~slow THEN <<0, 0, 4, 9>>
    ELSE IF absolute /\ slow THEN <<0, 0, 4, 8>>
    ELSE IF ~absolute /\ ~slow THEN <<0, 0, 4, 10>>
    ELSE <<0, 0, 4, 11>>

\* The command id chosen by approach_position.
approach_cmd_id(absolute, slow) ==
    IF absolute /\ ~slow THEN <<0, 0, 4, 8>>
    ELSE IF absolute /\ slow THEN <<0, 0, 4, 9>>
    ELSE IF ~absolute /\ ~slow THEN <<0, 0, 4, 10>>
    ELSE <<0, 0, 4, 11>>

\* The command id chosen by axis_switch.
switch_cmd_id(switch_on) ==
    IF ~switch_on THEN <<0, 0, 3, 4>> ELSE <<0, 0, 3, 5>>

\* A move that forgets the reverse flag.
position_never_reversed(position, reverse) == position

\* "Reverse axis if necessary"
reversed_position(position, reverse) ==
    IF reverse THEN Neg(position) ELSE position

Args(cmd_id, n_bytes, var_bytes, n_ret_bytes) ==
    [cmd_id |-> cmd_id, n_bytes |-> n_bytes,
     var_bytes |-> var_bytes, n_ret_bytes |-> n_ret_bytes]

\* The (cmd_id, n_bytes, var_bytes, n_ret_bytes) each operation passes on.
position_inquiry_args(axis) == Args(<<0, 1, 0, 1>>, 1, <<axis>>, 10)

axis_status_args(axis) == Args(<<0, 1, 1, 14>>, 1, <<axis>>, 7)

axis_switch_args(axis, switch_on) ==
    Args(switch_cmd_id(switch_on), 1, <<axis>>, 5)

approach_position_args(axis, position, absolute, slow, reverse) ==
    Args(approach_cmd_id(absolute, slow), 5,
         <<axis>> \o float_to_dec_bytes(reversed_position(position, reverse)),
         5)

-----------------------------------------------------------------------------
(* Inputs and the device *)

F(s, e, m) == [sign |-> s, exp |-> e, mant |-> m]

\* -100.0, 100.0, 0x41234567 (about 10.2): the position arguments.
Floats == { F(1, 133, 4718592), F(0, 133, 4718592), F(0, 130, 2311527) }

\* The positions the device reports: -100.0, 0x42f6e979 (about 123.456).
Reported == { F(1, 133, 4718592), F(0, 133, 7793017) }

\* Axis arguments: bytes, and integers that are no byte.
Axes == {15, 256, 4096, -1}

\* Elements of the parameter lists passed to send_command directly.
ParamVals == {7, 256}

RECURSIVE SeqsUpTo(_, _)
SeqsUpTo(S, n) ==
    IF n = 0 THEN {<<>>}
    ELSE LET shorter == SeqsUpTo(S, n - 1)
         IN  shorter \cup {Append(q, x) : q \in {r \in shorter : Len(r) = n - 1}, x \in S}

\* The shortest list of more than 255 bytes whose count '%02x' prints with
\* an even number of digits, so that the command still binarizes.
LongLen == 16 * 16 * 16

LongParams == [i \in 1..LongLen |-> 0]

ParamLists == SeqsUpTo(ParamVals, MaxParams)

DeclaredCounts == 0..MaxParams

CmdIds == {<<0, 1, 0, 1>>, <<0, 1, 1, 14>>}

ReplyLengths == {5}

\* The bytes of a float as the device transmits them: least significant first.
LsbFirst(x) ==
    << x.mant % 256,
       (x.mant \div 256) % 256,
       (x.exp % 2) * 128 + x.mant \div 65536,
       x.sign * 128 + x.exp \div 2 >>

\* What the device may deliver before the time-out: any prefix of a header,
\* a float, and trailing bytes (one more than the longest reply asked for).
Delivered ==
    { Take(<<1, 1, 0, 1>> \o LsbFirst(x) \o <<0, 0, 0>>, k) :
        x \in Reported, k \in 0..11 }

\* What it may deliver to a command that is only acknowledged.
Acks == { <<1, 1, 0>>, <<1, 1, 0, 1, 0, 0, 0>> }

NoOp ==
    [name |-> "none", axis |-> 0, position |-> F(0, 0, 0),
     absolute |-> FALSE, slow |-> FALSE, reverse |-> FALSE, switch_on |-> FALSE]

-----------------------------------------------------------------------------
(* The state machine *)

\* __init__: the port opened (connected) or the open raised (ser = None).
Init ==
    /\ connected \in BOOLEAN
    /\ ncalls = 0
    /\ io = <<>>
    /\ op = NoOp
    /\ sent = <<>>
    /\ wire = <<>>
    /\ reads = <<>>
    /\ outcome = None

\* What each operation returns, given what its send_command returned.
Result(name, r) ==
    CASE name = "position_inquiry" -> decode_position(r)
      [] name = "axis_status" -> decode_status(r)
      [] OTHER -> r

\* One operation: its one send_command, and what it makes of the result.
\* The state after the call, in the order of vars.
Transact(o, a, avail) ==
    LET r == send_command(connected, ncalls + 1, a.cmd_id, a.n_bytes,
                          a.var_bytes, a.n_ret_bytes, avail)
    IN  << connected, ncalls + 1, io \o r.events, o, <<a>>, r.wire, r.reads,
           Result(o.name, r.ret) >>

\* The call leaves the driver in state t.
Becomes(t) ==
    /\ connected' = t[1]
    /\ ncalls' = t[2]
    /\ io' = t[3]
    /\ op' = t[4]
    /\ sent' = t[5]
    /\ wire' = t[6]
    /\ reads' = t[7]
    /\ outcome' = t[8]

CallSendCommand ==
    /\ ncalls < MaxCalls
    /\ \E cmd_id \in CmdIds, n_bytes \in DeclaredCounts, var_bytes \in ParamLists,
          n_ret_bytes \in ReplyLengths, avail \in Acks :
           Becomes(Transact([NoOp EXCEPT !.name = "send_command"],
                            Args(cmd_id, n_bytes, var_bytes, n_ret_bytes), avail))

CallPositionInquiry ==
    /\ ncalls < MaxCalls
    /\ \E axis \in Axes, avail \in Delivered :
           Becomes(Transact([NoOp EXCEPT !.name = "position_inquiry", !.axis = axis],
                            position_inquiry_args(axis), avail))

CallApproachPosition ==
    /\ ncalls < MaxCalls
    /\ \E axis \in Axes, position \in Floats, absolute \in BOOLEAN,
          slow \in BOOLEAN, reverse \in BOOLEAN, avail \in Acks :
           Becomes(Transact([NoOp EXCEPT !.name = "approach_position", !.axis = axis,
                                         !.position = position, !.absolute = absolute,
                                         !.slow = slow, !.reverse = reverse],
                            approach_position_args(axis, position, absolute, slow, reverse),
                            avail))

CallAxisStatus ==
    /\ ncalls < MaxCalls
    /\ \E axis \in Axes, avail \in Delivered :
           Becomes(Transact([NoOp EXCEPT !.name = "axis_status", !.axis = axis],
                            axis_status_args(axis), avail))

CallAxisSwitch ==
    /\ ncalls < MaxCalls
    /\ \E axis \in Axes, switch_on \in BOOLEAN, avail \in Acks :
           Becomes(Transact([NoOp EXCEPT !.name = "axis_switch", !.axis = axis,
                                         !.switch_on = switch_on],
                            axis_switch_args(axis, switch_on), avail))

Next ==
    \/ CallSendCommand
    \/ CallPositionInquiry
    \/ CallApproachPosition
    \/ CallAxisStatus
    \/ CallAxisSwitch

Spec == Init /\ [][Next]_vars

\* send_command alone, called once on a fresh driver, on parameter lists
\* that include one of more than 255 bytes.
EncodeOnce ==
    /\ ncalls = 0
    /\ \E cmd_id \in CmdIds, var_bytes \in ParamLists \cup {LongParams},
          n_bytes \in DeclaredCounts \cup {LongLen},
          n_ret_bytes \in ReplyLengths, avail \in Acks :
           Becomes(Transact([NoOp EXCEPT !.name = "send_command"],
                            Args(cmd_id, n_bytes, var_bytes, n_ret_bytes), avail))

SpecEncode == Init /\ [][EncodeOnce]_vars

-----------------------------------------------------------------------------
(* Properties *)

IsByte(v) == v \in 0..255

Called == Len(sent) = 1

call == sent[1]

Mismatch == Called /\ call.n_bytes # Len(call.var_bytes)

\* The events of the last call on the port.
OwnEvents == SelectSeq(io, LAMBDA e : e.tx = ncalls)

\* The two bytes a command id is written as.
IdBytes(c) == <<16 * c[1] + c[2], 16 * c[3] + c[4]>>

\* C1: for every command id c and every list p of bytes declared with
\* its own length, the frame written is 0x16, c, len(p), p, 0x00, 0x00,
\* of length 6 + len(p).
C1_FrameLayout ==
    (Called /\ wire # <<>> /\ \A i \in 1..Len(call.var_bytes) : IsByte(call.var_bytes[i]))
        => LET f == wire[1]
               p == call.var_bytes
           IN  /\ Len(f) = 6 + Len(p)
               /\ f[1] = 22
               /\ SubSeq(f, 2, 3) = IdBytes(call.cmd_id)
               /\ f[4] = Len(p)
               /\ SubSeq(f, 5, 4 + Len(p)) = p
               /\ SubSeq(f, Len(f) - 1, Len(f)) = <<0, 0>>

\* The vendor table: opcode, parameter count, reply length of an operation.
VendorTable(o) ==
    CASE o.name = "position_inquiry" -> <<<<0, 1, 0, 1>>, 1, 10>>
      [] o.name = "axis_status" -> <<<<0, 1, 1, 14>>, 1, 7>>
      [] o.name = "axis_switch" /\ ~o.switch_on -> <<<<0, 0, 3, 4>>, 1, 5>>
      [] o.name = "axis_switch" /\ o.switch_on -> <<<<0, 0, 3, 5>>, 1, 5>>
      [] o.name = "approach_position" /\ o.absolute /\ ~o.slow -> <<<<0, 0, 4, 8>>, 5, 5>>
      [] o.name = "approach_position" /\ o.absolute /\ o.slow -> <<<<0, 0, 4, 9>>, 5, 5>>
      [] o.name = "approach_position" /\ ~o.absolute /\ ~o.slow -> <<<<0, 0, 4, 10>>, 5, 5>>
      [] o.name = "approach_position" /\ ~o.absolute /\ o.slow -> <<<<0, 0, 4, 11>>, 5, 5>>

Operations == {"position_inquiry", "axis_status", "axis_switch", "approach_position"}

\* C2: each command operation issues exactly one send_command, with the
\* opcode, parameter count and reply length of the vendor table, the count
\* being the number of parameters passed, and the axis as first parameter.
C2_VendorTable ==
    op.name \in Operations
        => /\ Len(sent) = 1
           /\ <<call.cmd_id, call.n_bytes, call.n_ret_bytes>> = VendorTable(op)
           /\ Len(call.var_bytes) = call.n_bytes
           /\ call.var_bytes[1] = op.axis

C2_Witness ==
    /\ op.name = "approach_position" /\ op.absolute /\ ~op.slow
    /\ wire # <<>>
    /\ SubSeq(wire[1], 2, 3) = <<0, 72>>

\* C3: a send_command whose declared count differs from the number of
\* parameters ends in the LengthMismatch error, not in a normal return.
C3_MismatchRaises ==
    Mismatch => outcome = Raised("LengthMismatch")

\* C4: a send_command whose declared count differs from the number of
\* parameters writes nothing, reads nothing and does not wait.
C4_MismatchLeavesPortAlone ==
    Mismatch => /\ wire = <<>>
                /\ reads = <<>>
                /\ OwnEvents = <<>>

C4_Witness ==
    /\ Mismatch /\ connected
    /\ call.n_bytes = 1 /\ call.var_bytes = <<>>
    /\ ncalls = 2 /\ Len(io) = 3

\* C5: when the read returns fewer bytes than asked, the operation ends in
\* the ShortReply error and returns no value.
C5_ShortReplyRaises ==
    (reads # <<>> /\ Len(reads[1].got) < reads[1].n)
        => outcome = Raised("ShortReply")

\* C6: on a driver whose port could not be opened, every call fails with
\* ConnectionUnavailable and touches the port in no way.
C6_DisconnectedFailsFast ==
    (~connected /\ Called)
        => /\ outcome = Raised("ConnectionUnavailable")
           /\ wire = <<>>
           /\ reads = <<>>
           /\ io = <<>>

ValidCall ==
    /\ Called /\ ~Mismatch
    /\ IsByte(call.n_bytes)
    /\ \A i \in 1..Len(call.var_bytes) : IsByte(call.var_bytes[i])

\* C7: on a connected driver the port sees, per transaction, one write, then
\* one settle wait, then one read of exactly n_ret_bytes bytes, transactions
\* one after the other in call order; every valid send_command is one such
\* transaction, and no call makes more than one.
C7_OneWriteWaitReadPerCall ==
    /\ Len(io) % 3 = 0
    /\ \A i \in 1..Len(io) :
          /\ io[i].kind = (CASE i % 3 = 1 -> "write" [] i % 3 = 2 -> "sleep" [] OTHER -> "read")
          /\ (i % 3 # 1) => io[i].tx = io[i - 1].tx
          /\ (i % 3 = 1 /\ i > 1) => io[i].tx > io[i - 1].tx
    /\ Len(wire) <= 1 /\ Len(reads) = Len(wire)
    /\ Len(OwnEvents) = 3 * Len(wire)
    /\ reads # <<>> => reads[1].n = call.n_ret_bytes
    /\ (connected /\ ValidCall) => Len(wire) = 1

C7_Witness ==
    /\ ncalls = 2 /\ Len(io) = 6 /\ ValidCall
    /\ io[4] = [kind |-> "write", tx |-> 2]

Effective(o) == IF o.reverse THEN [o.position EXCEPT !.sign = 1 - @] ELSE o.position

\* A 10-byte reply with the four bytes b at offsets 4..7.
ReplyWith(b) == Value("bytes", <<0, 0, 0, 0>> \o b \o <<0, 0>>)

\* C8: the four bytes float_to_dec_bytes gives for v are v's bytes least
\* significant first, and position_inquiry decodes a 10-byte reply that
\* carries them at offsets 4..7 to exactly v.
C8_FloatRoundTrip ==
    /\ op.name = "approach_position"
          => LET b == SubSeq(call.var_bytes, 2, 5)
             IN  /\ b = LsbFirst(Effective(op))
                 /\ decode_position(ReplyWith(b)) = Value("float", Effective(op))
    /\ (op.name = "position_inquiry" /\ reads # <<>> /\ Len(reads[1].got) = 10)
          => \A v \in Floats \cup Reported :
                SubSeq(reads[1].got, 5, 8) = float_to_dec_bytes(v)
                    => outcome = Value("float", v)

C8_Witness ==
    /\ op.name = "position_inquiry"
    /\ reads # <<>> /\ Len(reads[1].got) = 10
    /\ SubSeq(reads[1].got, 5, 8) = float_to_dec_bytes(F(1, 133, 4718592))
    /\ outcome.kind = "float"

\* C9: approach_position writes the frame of the position negated when
\* reverse is set and of the position itself when it is not, the same frame
\* for (reverse, x) and (not reverse, -x): opcode, count 5, axis, the four
\* bytes that decode to the position moved to.  Whatever the axis, the four
\* bytes before the checksum are those of the position moved to.
C9_ReverseNegates ==
    (op.name = "approach_position" /\ wire # <<>>)
        => LET f == wire[1]
           IN  /\ SubSeq(f, 2, 3) = IdBytes(VendorTable(op)[1])
               /\ SubSeq(f, Len(f) - 5, Len(f) - 2) = LsbFirst(Effective(op))
               /\ IsByte(op.axis)
                     => /\ f = <<22>> \o IdBytes(VendorTable(op)[1]) \o <<5, op.axis>>
                                   \o LsbFirst(Effective(op)) \o <<0, 0>>
                        /\ unpack_native(SubSeq(f, 6, 9)) = Effective(op)

C9_Witness ==
    /\ op.name = "approach_position" /\ op.reverse
    /\ op.position = F(1, 133, 4718592)
    /\ wire # <<>>
    /\ SubSeq(wire[1], 6, 9) = <<0, 0, 200, 66>>

\* C10: every frame written carries in its count byte the number of
\* parameter bytes it holds.
C10_CountMatchesPayload ==
    \A i \in 1..Len(wire) : wire[i][4] = Len(wire[i]) - 6

====
